---- MODULE Spec2Model ----
(***************************************************************************)
(* Model of src/models/user.js: the User class of the messaging            *)
(* application.  Every method is a static async function that issues one   *)
(* SQL statement through db.query.  register awaits bcrypt.hash before its *)
(* INSERT, so it is two steps that other callers interleave with; every    *)
(* other method touches the store in one statement.  authenticate awaits   *)
(* bcrypt.compare after its SELECT, but that step reads only the locals of *)
(* the call, so it commutes with every step of every other caller and is   *)
(* taken together with the SELECT.                                         *)
(* The state is the two relations (users, messages), the storage server's  *)
(* clock, the position of every caller inside register, and the outcome    *)
(* the last step delivered to its caller.                                  *)
(*                                                                         *)
(* Strings that the model compares with one another (plaintext passwords   *)
(* and bcrypt hashes) are sequences of tokens.                             *)
(***************************************************************************)
EXTENDS Integers, Sequences, FiniteSets, TLC

\* ---------------------------------------------------------------- bounds

\* Largest value the storage clock reaches: at most MaxTime statements read
\* CURRENT_TIMESTAMP in one behaviour.
MaxTime ==
    3

\* Largest number of rows of the messages relation.
MaxMessages ==
    2

\* Concurrent callers of the User methods.
Procs ==
    {"c1", "c2"}

Usernames ==
    {"alice", "bob"}

Passwords ==
    {<<"pw1">>, <<"pw2">>}

\* A password argument that was not supplied (JavaScript undefined).
Undefined ==
    <<"#undefined">>

\* The salts bcrypt.hash may draw.
Salts ==
    {"s1", "s2"}

\* The (first_name, last_name, phone) triples passed to register.
AnnLee ==
    [first_name |-> "Ann", last_name |-> "Lee", phone |-> "555-0001"]

BoRay ==
    [first_name |-> "Bo", last_name |-> "Ray", phone |-> "555-0002"]

\* The argument lists callers pass to register: two for alice that differ in
\* password and profile, one for bob, and one without a password.
RegisterArgs ==
    { [username |-> "alice", password |-> <<"pw1">>, profile |-> AnnLee],
      [username |-> "alice", password |-> <<"pw2">>, profile |-> BoRay],
      [username |-> "bob", password |-> <<"pw1">>, profile |-> BoRay],
      [username |-> "bob", password |-> Undefined, profile |-> AnnLee] }

Bodies ==
    {"hi"}

\* SQL NULL in a timestamp column (timestamps start at 1).
NULL ==
    0

VARIABLES
    users,      \* the users relation: a sequence of rows
    messages,   \* the messages relation: a sequence of rows
    now,        \* the last value CURRENT_TIMESTAMP returned
    pc,         \* pc[p]: where caller p stands inside register
    local,      \* local[p]: the arguments and locals of p's register in flight
    ret,        \* what the last step delivered: a return value or a throw
    registered  \* history: the arguments of the register call that made each row

vars ==
    <<users, messages, now, pc, local, ret, registered>>

\* --------------------------------------------------------------- helpers

None ==
    [op |-> "none"]

NoLocal ==
    [op |-> "none"]

\* bcrypt.hash(data, rounds) with the salt it drew: a salted one-way hash,
\* "$2b$" + salt + digest.
hash(data, salt) ==
    <<"$2b$", salt>> \o data

\* bcrypt.compare(data, encrypted): re-hash data with the salt inside
\* encrypted and compare.
compare(data, encrypted) ==
    /\ Len(encrypted) >= 2
    /\ encrypted[1] = "$2b$"
    /\ hash(data, encrypted[2]) = encrypted

RECURSIVE Concat(_)
Concat(ss) ==
    IF ss = <<>> THEN <<>> ELSE Head(ss) \o Concat(Tail(ss))

\* SELECT ... FROM users WHERE username = $1
SelectUser(username) ==
    SelectSeq(users, LAMBDA r : r.username = username)

\* The users table's uniqueness constraint on username, checked by INSERT.
UniqueViolation(username) ==
    Len(SelectUser(username)) > 0

\* InsertRow with the third and fourth parameters in each other's place.
InsertRowSwapped(l, t) ==
    [ username |-> l.username, password |-> l.hashedPassword,
      first_name |-> l.last_name, last_name |-> l.first_name,
      phone |-> l.phone, join_at |-> t, last_login_at |-> t ]

\* InsertRow with password in the parameter list where hashedPassword belongs.
InsertRowPlaintext(l, t) ==
    [ username |-> l.username, password |-> l.password,
      first_name |-> l.first_name, last_name |-> l.last_name,
      phone |-> l.phone, join_at |-> t, last_login_at |-> t ]

\* The row INSERT ... VALUES ($1, $2, $3, $4, $5, CURRENT_TIMESTAMP,
\* CURRENT_TIMESTAMP) builds from the parameter list of register.
InsertRow(l, t) ==
    [ username |-> l.username, password |-> l.hashedPassword,
      first_name |-> l.first_name, last_name |-> l.last_name,
      phone |-> l.phone, join_at |-> t, last_login_at |-> t ]

\* RETURNING username, password, first_name, last_name, phone
Returning(row) ==
    [ username |-> row.username, password |-> row.password,
      first_name |-> row.first_name, last_name |-> row.last_name,
      phone |-> row.phone ]

\* UpdateRows that sets join_at, the other timestamp column.
UpdateRowsJoinAt(username, t) ==
    [ i \in 1..Len(users) |->
        IF users[i].username = username
        THEN [users[i] EXCEPT !.join_at = t]
        ELSE users[i] ]

\* UpdateRows without its WHERE clause.
UpdateRowsNoWhere(username, t) ==
    [ i \in 1..Len(users) |-> [users[i] EXCEPT !.last_login_at = t] ]

\* UPDATE users SET last_login_at = CURRENT_TIMESTAMP WHERE username = $1
UpdateRows(username, t) ==
    [ i \in 1..Len(users) |->
        IF users[i].username = username
        THEN [users[i] EXCEPT !.last_login_at = t]
        ELSE users[i] ]

\* ------------------------------------------------------------------ Init

Init ==
    /\ users = <<>>
    /\ messages = <<>>
    /\ now = 0
    /\ pc = [p \in Procs |-> "idle"]
    /\ local = [p \in Procs |-> NoLocal]
    /\ ret = None
    /\ registered = [u \in Usernames |-> None]

\* -------------------------------------------------------------- register

\* register, line 20: await bcrypt.hash(password, BCRYPT_WORK_FACTOR).
\* bcrypt rejects when the data argument is missing; the rejection leaves
\* register before the INSERT is issued.
RegisterHash(p, username, password, profile, salt) ==
    /\ pc[p] = "idle"
    /\ IF password = Undefined
       THEN /\ ret' = [ op |-> "register", username |-> username,
                        kind |-> "throw", error |-> "HashingFailure" ]
            /\ UNCHANGED <<pc, local>>
       ELSE /\ pc' = [pc EXCEPT ![p] = "insert"]
            /\ local' = [local EXCEPT ![p] =
                           [ op |-> "register", username |-> username,
                             password |-> password,
                             hashedPassword |-> hash(password, salt),
                             first_name |-> profile.first_name,
                             last_name |-> profile.last_name,
                             phone |-> profile.phone ]]
            /\ ret' = None
    /\ UNCHANGED <<users, messages, now, registered>>

\* RegisterInsert with INSERT ... ON CONFLICT DO NOTHING: a duplicate makes no
\* error, and register returns the undefined rows[0].
RegisterInsertOnConflictDoNothing(p) ==
    /\ pc[p] = "insert"
    /\ pc' = [pc EXCEPT ![p] = "idle"]
    /\ local' = [local EXCEPT ![p] = NoLocal]
    /\ IF UniqueViolation(local[p].username)
       THEN /\ ret' = [ op |-> "register", username |-> local[p].username,
                        kind |-> "return", value |-> Undefined ]
            /\ UNCHANGED <<users, now, registered>>
       ELSE /\ now < MaxTime
            /\ now' = now + 1
            /\ users' = Append(users, InsertRow(local[p], now'))
            /\ ret' = [ op |-> "register", username |-> local[p].username,
                        kind |-> "return",
                        value |-> Returning(InsertRow(local[p], now')) ]
            /\ registered' = [registered EXCEPT ![local[p].username] =
                                [ op |-> "register",
                                  password |-> local[p].password,
                                  first_name |-> local[p].first_name,
                                  last_name |-> local[p].last_name,
                                  phone |-> local[p].phone ]]
    /\ UNCHANGED messages

\* register, lines 21-29: the INSERT and the return of its RETURNING row.
\* A violated constraint makes db.query reject; register has no handler, so
\* the rejection reaches the caller as it is.
RegisterInsert(p) ==
    /\ pc[p] = "insert"
    /\ pc' = [pc EXCEPT ![p] = "idle"]
    /\ local' = [local EXCEPT ![p] = NoLocal]
    /\ IF UniqueViolation(local[p].username)
       THEN /\ ret' = [ op |-> "register", username |-> local[p].username,
                        kind |-> "throw", error |-> "ConstraintViolation" ]
            /\ UNCHANGED <<users, now, registered>>
       ELSE /\ now < MaxTime
            /\ now' = now + 1
            /\ users' = Append(users, InsertRow(local[p], now'))
            /\ ret' = [ op |-> "register", username |-> local[p].username,
                        kind |-> "return",
                        value |-> Returning(InsertRow(local[p], now')) ]
            /\ registered' = [registered EXCEPT ![local[p].username] =
                                [ op |-> "register",
                                  password |-> local[p].password,
                                  first_name |-> local[p].first_name,
                                  last_name |-> local[p].last_name,
                                  phone |-> local[p].phone ]]
    /\ UNCHANGED messages

\* A caller that is not inside register is free to make a call.
CallerFree ==
    \E p \in Procs : pc[p] = "idle"

\* ---------------------------------------------------------- authenticate

\* AuthenticateOutcome without the await on bcrypt.compare in a condition:
\* the pending promise is truthy, so a found row authenticates.
AuthenticateOutcomeNoAwait(username, password) ==
    [ op |-> "authenticate", username |-> username,
      kind |-> "return", value |-> Len(SelectUser(username)) > 0 ]

\* authenticate, lines 35-42: what the call delivers in the current state.
\* false when the SELECT finds no row; otherwise the result of
\* bcrypt.compare(password, hashedPassword), which rejects when its data
\* argument is missing.
AuthenticateOutcome(username, password) ==
    LET rows == SelectUser(username) IN
    IF Len(rows) = 0
    THEN [ op |-> "authenticate", username |-> username,
           kind |-> "return", value |-> FALSE ]
    ELSE IF password = Undefined
    THEN [ op |-> "authenticate", username |-> username,
           kind |-> "throw", error |-> "HashingFailure" ]
    ELSE [ op |-> "authenticate", username |-> username,
           kind |-> "return", value |-> compare(password, rows[1].password) ]

\* Authenticate that stamps last_login_at itself when the password matches.
AuthenticateAndStamp(username, password) ==
    /\ CallerFree
    /\ ret' = AuthenticateOutcome(username, password)
    /\ IF ret'.kind = "return" /\ ret'.value /\ now < MaxTime
       THEN /\ now' = now + 1
            /\ users' = UpdateRows(username, now')
       ELSE UNCHANGED <<users, now>>
    /\ UNCHANGED <<messages, pc, local, registered>>

\* authenticate, lines 34-43.
Authenticate(username, password) ==
    /\ CallerFree
    /\ ret' = AuthenticateOutcome(username, password)
    /\ UNCHANGED <<users, messages, now, pc, local, registered>>

\* -------------------------------------------------- updateLoginTimestamp

\* UpdateOutcome without the check of line 55: a silent success.
UpdateOutcomeSilent(username, returned) ==
    [ op |-> "updateLoginTimestamp", username |-> username,
      kind |-> "return" ]

\* updateLoginTimestamp, line 55: NotFoundError when the UPDATE returned no
\* row.
UpdateOutcome(username, returned) ==
    IF Len(returned) = 0
    THEN [ op |-> "updateLoginTimestamp", username |-> username,
           kind |-> "throw", error |-> "NotFound" ]
    ELSE [ op |-> "updateLoginTimestamp", username |-> username,
           kind |-> "return" ]

\* updateLoginTimestamp, lines 47-56: one UPDATE ... RETURNING username.
UpdateLoginTimestamp(username) ==
    /\ CallerFree
    /\ ret' = UpdateOutcome(username, SelectUser(username))
    /\ IF Len(SelectUser(username)) = 0
       THEN UNCHANGED <<users, now>>
       ELSE /\ now < MaxTime
            /\ now' = now + 1
            /\ users' = UpdateRows(username, now')
    /\ UNCHANGED <<messages, pc, local, registered>>

\* ------------------------------------------------------------ all, get

\* all, lines 61-66: SELECT username, first_name, last_name FROM users.
All ==
    /\ CallerFree
    /\ ret' = [ op |-> "all", kind |-> "return",
                value |-> [ i \in 1..Len(users) |->
                              [ username |-> users[i].username,
                                first_name |-> users[i].first_name,
                                last_name |-> users[i].last_name ] ] ]
    /\ UNCHANGED <<users, messages, now, pc, local, registered>>

\* SELECT username, first_name, last_name, phone, join_at, last_login_at
GetColumns(row) ==
    [ username |-> row.username, first_name |-> row.first_name,
      last_name |-> row.last_name, phone |-> row.phone,
      join_at |-> row.join_at, last_login_at |-> row.last_login_at ]

\* get, lines 79-86: what the call delivers in the current state.
GetOutcome(username) ==
    LET rows == SelectUser(username) IN
    IF Len(rows) = 0
    THEN [ op |-> "get", username |-> username,
           kind |-> "throw", error |-> "NotFound" ]
    ELSE [ op |-> "get", username |-> username,
           kind |-> "return", value |-> GetColumns(rows[1]) ]

\* get, lines 78-87.
Get(username) ==
    /\ CallerFree
    /\ ret' = GetOutcome(username)
    /\ UNCHANGED <<users, messages, now, pc, local, registered>>

\* ------------------------------------------------ messagesFrom, messagesTo

\* messages AS m JOIN users AS u ON m.<column> = u.username, over the rows
\* ms of messages: one joined row per pair of a message and a user row that
\* match.
JoinUsers(ms, column) ==
    Concat([ i \in 1..Len(ms) |->
               LET us == SelectSeq(users, LAMBDA u : u.username = ms[i][column])
               IN  [ j \in 1..Len(us) |-> [m |-> ms[i], u |-> us[j]] ] ])

\* messagesFrom, lines 98-106: the rows of the query, with the columns it
\* selects (m.to_username AS to_user).
MessagesFromRows(username) ==
    LET joined == JoinUsers(
                    SelectSeq(messages, LAMBDA m : m.from_username = username),
                    "to_username")
    IN  [ i \in 1..Len(joined) |->
            [ id |-> joined[i].m.id, to_user |-> joined[i].m.to_username,
              body |-> joined[i].m.body, sent_at |-> joined[i].m.sent_at,
              read_at |-> joined[i].m.read_at,
              first_name |-> joined[i].u.first_name,
              last_name |-> joined[i].u.last_name,
              phone |-> joined[i].u.phone ] ]

\* messagesFrom, lines 111-124: messageList.map(...).
MessagesFromMap(messageList) ==
    [ i \in 1..Len(messageList) |->
        [ id |-> messageList[i].id,
          to_user |-> [ username |-> messageList[i].to_user,
                        first_name |-> messageList[i].first_name,
                        last_name |-> messageList[i].last_name,
                        phone |-> messageList[i].phone ],
          body |-> messageList[i].body,
          sent_at |-> messageList[i].sent_at,
          read_at |-> messageList[i].read_at ] ]

\* MessagesFromOutcome without the check of line 107: an empty list.
MessagesFromOutcomeEmpty(username) ==
    [ op |-> "messagesFrom", username |-> username,
      kind |-> "return",
      value |-> MessagesFromMap(MessagesFromRows(username)) ]

\* messagesFrom, lines 107-124: what the call delivers in the current state.
MessagesFromOutcome(username) ==
    LET rows == MessagesFromRows(username) IN
    IF Len(rows) = 0
    THEN [ op |-> "messagesFrom", username |-> username,
           kind |-> "throw", error |-> "NotFound" ]
    ELSE [ op |-> "messagesFrom", username |-> username,
           kind |-> "return", value |-> MessagesFromMap(rows) ]

\* messagesFrom, lines 97-125.
MessagesFrom(username) ==
    /\ CallerFree
    /\ ret' = MessagesFromOutcome(username)
    /\ UNCHANGED <<users, messages, now, pc, local, registered>>

\* MessagesToRows with the join condition of messagesFrom left in place
\* (ON m.to_username = u.username).
MessagesToRowsJoinRecipient(username) ==
    LET joined == JoinUsers(
                    SelectSeq(messages, LAMBDA m : m.to_username = username),
                    "to_username")
    IN  [ i \in 1..Len(joined) |->
            [ id |-> joined[i].m.id, from_user |-> joined[i].m.from_username,
              body |-> joined[i].m.body, sent_at |-> joined[i].m.sent_at,
              read_at |-> joined[i].m.read_at,
              first_name |-> joined[i].u.first_name,
              last_name |-> joined[i].u.last_name,
              phone |-> joined[i].u.phone ] ]

\* messagesTo, lines 136-144: the rows of the query, with the columns it
\* selects (m.from_username AS from_user).
MessagesToRows(username) ==
    LET joined == JoinUsers(
                    SelectSeq(messages, LAMBDA m : m.to_username = username),
                    "from_username")
    IN  [ i \in 1..Len(joined) |->
            [ id |-> joined[i].m.id, from_user |-> joined[i].m.from_username,
              body |-> joined[i].m.body, sent_at |-> joined[i].m.sent_at,
              read_at |-> joined[i].m.read_at,
              first_name |-> joined[i].u.first_name,
              last_name |-> joined[i].u.last_name,
              phone |-> joined[i].u.phone ] ]

\* messagesTo, lines 148-161: messageList.map(...).
MessagesToMap(messageList) ==
    [ i \in 1..Len(messageList) |->
        [ id |-> messageList[i].id,
          from_user |-> [ username |-> messageList[i].from_user,
                          first_name |-> messageList[i].first_name,
                          last_name |-> messageList[i].last_name,
                          phone |-> messageList[i].phone ],
          body |-> messageList[i].body,
          sent_at |-> messageList[i].sent_at,
          read_at |-> messageList[i].read_at ] ]

\* messagesTo, lines 145-161: what the call delivers in the current state.
MessagesToOutcome(username) ==
    LET rows == MessagesToRows(username) IN
    IF Len(rows) = 0
    THEN [ op |-> "messagesTo", username |-> username,
           kind |-> "throw", error |-> "NotFound" ]
    ELSE [ op |-> "messagesTo", username |-> username,
           kind |-> "return", value |-> MessagesToMap(rows) ]

\* messagesTo, lines 135-162.
MessagesTo(username) ==
    /\ CallerFree
    /\ ret' = MessagesToOutcome(username)
    /\ UNCHANGED <<users, messages, now, pc, local, registered>>

\* ------------------------------------------------------------ environment

\* A message is created outside the User class: a new row with a fresh id,
\* sender and recipient both rows of users (foreign references), sent_at the
\* current server time and read_at NULL.
SendMessage(from_username, to_username, body) ==
    /\ Len(messages) < MaxMessages
    /\ now < MaxTime
    /\ Len(SelectUser(from_username)) > 0
    /\ Len(SelectUser(to_username)) > 0
    /\ now' = now + 1
    /\ messages' = Append(messages,
                     [ id |-> Len(messages) + 1,
                       from_username |-> from_username,
                       to_username |-> to_username,
                       body |-> body, sent_at |-> now', read_at |-> NULL ])
    /\ ret' = None
    /\ UNCHANGED <<users, pc, local, registered>>

Next ==
    \/ \E p \in Procs, a \in RegisterArgs, s \in Salts :
          RegisterHash(p, a.username, a.password, a.profile, s)
    \/ \E p \in Procs : RegisterInsert(p)
    \/ \E u \in Usernames, pw \in Passwords \cup {Undefined} :
          Authenticate(u, pw)
    \/ \E u \in Usernames : UpdateLoginTimestamp(u)
    \/ All
    \/ \E u \in Usernames : Get(u)
    \/ \E u \in Usernames : MessagesFrom(u)
    \/ \E u \in Usernames : MessagesTo(u)
    \/ \E f \in Usernames, t \in Usernames, b \in Bodies : SendMessage(f, t, b)

Spec ==
    Init /\ [][Next]_vars

\* ---------------------------------------------------------------- claims

Exists(username) ==
    Len(SelectUser(username)) > 0

Row(username) ==
    SelectUser(username)[1]

WasRegistered(username) ==
    registered[username].op = "register"

\* C1: in every reachable state and for every (username, password),
\* authenticate returns true exactly when a row with that username exists and
\* the password is the one the row was registered with; for an existing user
\* and any other password string it returns false; for an unknown username it
\* returns false whatever the password argument, and raises nothing.
C1_AuthenticateIffRegisteredPassword ==
    \A u \in Usernames, pw \in Passwords \cup {Undefined} :
        LET out == AuthenticateOutcome(u, pw) IN
        /\ (out.kind = "return" /\ out.value)
              <=> (Exists(u) /\ WasRegistered(u) /\ registered[u].password = pw)
        /\ (Exists(u) /\ pw \in Passwords /\ registered[u].password # pw)
              => (out.kind = "return" /\ ~out.value)
        /\ ~Exists(u) => (out.kind = "return" /\ ~out.value)

\* C1 witness: authenticate has just returned true for a registered user.
C1_Witness ==
    /\ ret.op = "authenticate"
    /\ ret.kind = "return"
    /\ ret.value
    /\ Exists(ret.username)

\* The users relation never holds two rows with the same username.
UniqueUsernames ==
    \A i, j \in 1..Len(users) :
        users[i].username = users[j].username => i = j

\* The INSERT step of caller p's register: it adds exactly one row, for the
\* username of the call, only when no row had that username; otherwise it
\* ends with ConstraintViolation and leaves users and messages as they were.
RegisterInsertStep(p) ==
    (pc[p] = "insert" /\ pc'[p] = "idle") =>
        IF Exists(local[p].username)
        THEN /\ ret'.op = "register"
             /\ ret'.username = local[p].username
             /\ ret'.kind = "throw"
             /\ ret'.error = "ConstraintViolation"
             /\ users' = users
             /\ messages' = messages
        ELSE /\ ret'.op = "register"
             /\ ret'.kind = "return"
             /\ Len(users') = Len(users) + 1
             /\ SubSeq(users', 1, Len(users)) = users
             /\ users'[Len(users')].username = local[p].username
             /\ messages' = messages

\* C2: under any interleaving of concurrent register calls the users relation
\* never holds two rows with one username; a register inserts a row only
\* when none had its username, and every other register for that username
\* ends with ConstraintViolation, the store unchanged.
C2_ConcurrentRegisterUnique ==
    /\ []UniqueUsernames
    /\ [][\A p \in Procs : RegisterInsertStep(p)]_vars

\* C2 witness: a register lost to an earlier one for the same username while
\* another register is still in flight.
C2_Witness ==
    /\ ret.op = "register"
    /\ ret.kind = "throw"
    /\ ret.error = "ConstraintViolation"
    /\ Exists(ret.username)
    /\ \E p \in Procs : pc[p] = "insert"

\* C3: updateLoginTimestamp on a username without a row ends in NotFound and
\* leaves every user row and every message row unchanged.
C3_UpdateUnknownNotFound ==
    [][ \A u \in Usernames :
          (ret'.op = "updateLoginTimestamp" /\ ret'.username = u /\ ~Exists(u))
            => /\ ret'.kind = "throw"
               /\ ret'.error = "NotFound"
               /\ users' = users
               /\ messages' = messages ]_vars

\* C3 witness: updateLoginTimestamp has just thrown NotFound while another
\* user and a message exist.
C3_Witness ==
    /\ ret.op = "updateLoginTimestamp"
    /\ ret.kind = "throw"
    /\ ret.error = "NotFound"
    /\ ~Exists(ret.username)
    /\ Len(users) > 0
    /\ Len(messages) > 0

\* C4: a successful updateLoginTimestamp(username) makes get(username) show a
\* last_login_at strictly greater than get(username) showed before it, and no
\* step ever decreases the last_login_at that get shows.
C4_LastLoginStrictlyLater ==
    [][ \A u \in Usernames :
          Exists(u) =>
            /\ GetOutcome(u)'.kind = "return"
            /\ GetOutcome(u)'.value.last_login_at
                 >= GetOutcome(u).value.last_login_at
            /\ (ret'.op = "updateLoginTimestamp" /\ ret'.username = u
                  /\ ret'.kind = "return")
                 => GetOutcome(u)'.value.last_login_at
                      > GetOutcome(u).value.last_login_at ]_vars

\* C4 witness: get shows a last_login_at later than the registration stamp.
C4_Witness ==
    /\ ret.op = "get"
    /\ ret.kind = "return"
    /\ ret.value.last_login_at > ret.value.join_at

\* C5: get(username) fails with NotFound exactly when no row has that
\* username; otherwise it returns the profile, whose first_name, last_name
\* and phone are those passed to the register call that succeeded, whatever
\* happened since.
C5_GetReturnsRegisteredProfile ==
    \A u \in Usernames :
        LET out == GetOutcome(u) IN
        /\ (out.kind = "throw") <=> ~Exists(u)
        /\ (out.kind = "throw") => out.error = "NotFound"
        /\ WasRegistered(u) <=> Exists(u)
        /\ WasRegistered(u) =>
             /\ out.kind = "return"
             /\ out.value.username = u
             /\ out.value.first_name = registered[u].first_name
             /\ out.value.last_name = registered[u].last_name
             /\ out.value.phone = registered[u].phone

\* C5 witness: get has just returned a profile after later operations,
\* among them a timestamp update of that user.
C5_Witness ==
    /\ ret.op = "get"
    /\ ret.kind = "return"
    /\ ret.value.first_name = registered[ret.username].first_name
    /\ ret.value.last_login_at > ret.value.join_at
    /\ Len(users) = 2

\* The indices of the entries of a result sequence that carry this id.
EntriesWithId(entries, id) ==
    { j \in 1..Len(entries) : entries[j].id = id }

C7_NotFoundOnNoMessages ==
    \A u \in Usernames :
        LET f == MessagesFromOutcome(u)
            t == MessagesToOutcome(u)
        IN  /\ (\A i \in 1..Len(messages) : messages[i].from_username # u)
                 => (f.kind = "throw" /\ f.error = "NotFound")
            /\ (\A i \in 1..Len(messages) : messages[i].to_username # u)
                 => (t.kind = "throw" /\ t.error = "NotFound")
            /\ f.kind = "return" => Len(f.value) > 0
            /\ t.kind = "return" => Len(t.value) > 0

\* C7 witness: messagesFrom has just thrown NotFound for a user that exists
\* and has received a message but sent none.
C7_Witness ==
    /\ ret.op = "messagesFrom"
    /\ ret.kind = "throw"
    /\ Exists(ret.username)
    /\ \E i \in 1..Len(messages) : messages[i].to_username = ret.username

\* Every stored password is a hash of the plaintext passed to register and
\* differs from it; so does the hash a register in flight is about to insert,
\* and the password a register returns is the stored one.
StoredPasswordsHashed ==
    /\ \A i \in 1..Len(users) :
          LET plain == registered[users[i].username].password IN
          /\ users[i].password # plain
          /\ compare(plain, users[i].password)
    /\ \A p \in Procs :
          pc[p] = "insert" => local[p].hashedPassword # local[p].password
    /\ (ret.op = "register" /\ ret.kind = "return")
          => /\ ret.value.password = Row(ret.username).password
             /\ ret.value.password # registered[ret.username].password

\* C8: no stored password equals the plaintext passed to register: register
\* hashes before the insert, persists and returns the hash, and inserts no
\* row when hashing fails.
C8_PlaintextNeverStored ==
    /\ []StoredPasswordsHashed
    /\ [][ (ret'.op = "register" /\ ret'.kind = "throw"
              /\ ret'.error = "HashingFailure")
             => (users' = users /\ pc' = pc) ]_vars

\* C8 witness: a register has just failed in hashing while a row registered
\* earlier is stored.
C8_Witness ==
    /\ ret.op = "register"
    /\ ret.kind = "throw"
    /\ ret.error = "HashingFailure"
    /\ Len(users) > 0

\* C9: authenticate, whatever it delivers, changes neither relation; a
\* user's last_login_at changes only in a successful updateLoginTimestamp
\* for that user.
C9_AuthenticateReadOnly ==
    [][ /\ ret'.op = "authenticate" => (users' = users /\ messages' = messages)
        /\ \A u \in Usernames :
              (Exists(u) /\ Row(u)'.last_login_at # Row(u).last_login_at)
                => /\ ret'.op = "updateLoginTimestamp"
                   /\ ret'.username = u
                   /\ ret'.kind = "return" ]_vars

\* C9 witness: authenticate has just returned true for a user whose
\* last_login_at still is the registration stamp, at a later time.
C9_Witness ==
    /\ ret.op = "authenticate"
    /\ ret.kind = "return"
    /\ ret.value
    /\ Row(ret.username).last_login_at = Row(ret.username).join_at
    /\ now > Row(ret.username).join_at

\* C10: a user row is never deleted; its username, password, first_name,
\* last_name, phone and join_at never change; last_login_at changes only on
\* the row whose username a successful updateLoginTimestamp was given; a
\* new row has join_at and last_login_at both equal to the current server
\* time.
C10_UserRowsImmutable ==
    [][ /\ Len(users') >= Len(users)
        /\ \A i \in 1..Len(users) :
              /\ users'[i].username = users[i].username
              /\ users'[i].password = users[i].password
              /\ users'[i].first_name = users[i].first_name
              /\ users'[i].last_name = users[i].last_name
              /\ users'[i].phone = users[i].phone
              /\ users'[i].join_at = users[i].join_at
              /\ users'[i].last_login_at # users[i].last_login_at
                   => /\ ret'.op = "updateLoginTimestamp"
                      /\ ret'.kind = "return"
                      /\ ret'.username = users[i].username
        /\ \A i \in (Len(users) + 1)..Len(users') :
              /\ users'[i].join_at = now'
              /\ users'[i].last_login_at = now'
              /\ now' > now ]_vars

\* C10 witness: of two stored rows one has had its last_login_at updated and
\* the other still carries its registration stamp.
C10_Witness ==
    /\ Len(users) = 2
    /\ users[1].last_login_at > users[1].join_at
    /\ users[2].last_login_at = users[2].join_at
    /\ ret.op = "updateLoginTimestamp"
    /\ ret.kind = "return"


====
